---- MODULE Spec2Model ----
(***************************************************************************)
(* Model of the review scraper: the command line driver (src/main.py), the *)
(* shared date parsing, date filter and HTTP retry loop                    *)
(* (src/scrapers/base_scraper.py), the G2 crawl loop                       *)
(* (src/scrapers/g2_scraper.py) and the Capterra crawl loop                *)
(* (src/scrapers/capterra_scraper.py).                                     *)
(*                                                                         *)
(* A date string is modelled by its format class and its content, a        *)
(* datetime by year, month, day and a time-of-day tick (0 is midnight).    *)
(***************************************************************************)
EXTENDS Integers, Sequences, FiniteSets

VARIABLES
    entry,          \* "main": python main.py ...; "scrape": CapterraScraper.scrape()
    args,           \* parsed command line: source, start_date, end_date, api_token
    now,            \* datetime.now(), the wall clock of the run
    pc,             \* position of the control flow
    scraper,        \* the scraper object main constructed ("none" before)
    current_page,   \* G2Scraper.scrape_reviews: current_page
    has_next_page,  \* G2Scraper.scrape_reviews: has_next_page
    all_reviews,    \* all_reviews of the running crawl loop (both scrapers)
    html,           \* the response make_request handed to the loop
    attempt,        \* make_request: attempts already made for this page
    N,              \* number of transient failures the fetcher serves before it succeeds
    cap,            \* CapterraScraper: start_date, end_date, page_number, driver
    result,         \* what the scraper returned to its caller
    saved,          \* what main wrote with save_to_json
    exit_code,      \* process exit status (-1 while running)
    message,        \* the last line main printed about the outcome
    fetches,        \* history: the page indexes requested so far
    seen,           \* history: the review cards of the pages processed so far
    fetch_failed,   \* history: make_request gave up on a page
    parse_failed,   \* history: parse_review_page reported an error
    interrupted,    \* history: KeyboardInterrupt was delivered
    delays,         \* history: the pauses (time.sleep) taken between pages
    processed,      \* history: the pages whose records were accumulated
    classified,     \* history: the records tested against the date window
    session         \* BaseScraper.session, the requests.Session of the scraper object

vars == <<entry, args, now, pc, scraper, current_page, has_next_page, all_reviews,
          html, attempt, N, cap, result, saved, exit_code, message, fetches, seen,
          fetch_failed, parse_failed, interrupted, delays, processed, classified,
          session>>

----------------------------------------------------------------------------
(* Bounds of the model *)

\* pages the source serves before it reports no next page
MaxPages == 2
\* review cards on one page
MaxPageLen == 2
\* transient failures a fetcher may serve before its first success
MaxFails == 5

(* Program constants *)

\* make_request(url, max_retries=5)
max_retries == 5
\* CapterraScraper.scrape: max_pages = 2
max_pages == 2

----------------------------------------------------------------------------
(* Calendar: datetime(y, m, d) of the standard library *)

IsLeap(y) == (y % 4 = 0 /\ y % 100 # 0) \/ y % 400 = 0

DaysInMonth(y, m) ==
    IF m = 2 THEN (IF IsLeap(y) THEN 29 ELSE 28)
    ELSE IF m \in {4, 6, 9, 11} THEN 30 ELSE 31

ValidYMD(y, m, d) ==
    /\ y \in 1..9999
    /\ m \in 1..12
    /\ d >= 1
    /\ d <= DaysInMonth(y, m)

Dt(y, m, d, t) == [y |-> y, m |-> m, d |-> d, t |-> t]
NoDt == Dt(0, 0, 0, 0)

\* outcomes of an expression that yields a datetime, None, or raises ValueError
Ok(dt) == [tag |-> "dt", dt |-> dt]
None == [tag |-> "None", dt |-> NoDt]
ValueError == [tag |-> "ValueError", dt |-> NoDt]

\* datetime(y, m, d): raises ValueError for a day that is not in the calendar
datetime(y, m, d) == IF ValidYMD(y, m, d) THEN Ok(Dt(y, m, d, 0)) ELSE ValueError

\* a <= b on datetimes
DtLE(a, b) ==
    \/ a.y < b.y
    \/ a.y = b.y /\ a.m < b.m
    \/ a.y = b.y /\ a.m = b.m /\ a.d < b.d
    \/ a.y = b.y /\ a.m = b.m /\ a.d = b.d /\ a.t <= b.t
DtLT(a, b) == DtLE(a, b) /\ a # b

\* a <= b on the calendar dates of two datetimes
DateLE(a, b) == DtLE(Dt(a.y, a.m, a.d, 0), Dt(b.y, b.m, b.d, 0))

PrevDay(dt) ==
    IF dt.d > 1 THEN Dt(dt.y, dt.m, dt.d - 1, dt.t)
    ELSE IF dt.m > 1 THEN Dt(dt.y, dt.m - 1, DaysInMonth(dt.y, dt.m - 1), dt.t)
    ELSE Dt(dt.y - 1, 12, 31, dt.t)

\* dt - timedelta(days=n): the time of day is kept
RECURSIVE MinusDays(_, _)
MinusDays(dt, n) == IF n = 0 THEN dt ELSE MinusDays(PrevDay(dt), n - 1)

----------------------------------------------------------------------------
(* Date strings *)

AbsStr(fmt, y, m, d) ==
    [kind |-> "abs", fmt |-> fmt, y |-> y, m |-> m, d |-> d, unit |-> "", n |-> 0]
\* "<n> <unit>s ago"
RelStr(unit, n) ==
    [kind |-> "rel", fmt |-> "", y |-> 0, m |-> 0, d |-> 0, unit |-> unit, n |-> n]
\* ''
EmptyStr == [kind |-> "empty", fmt |-> "", y |-> 0, m |-> 0, d |-> 0, unit |-> "", n |-> 0]
\* text that matches no format and names no year, month or day
GarbageStr == [kind |-> "garbage", fmt |-> "", y |-> 0, m |-> 0, d |-> 0, unit |-> "", n |-> 0]

\* datetime.strptime(s, fmt) succeeds
strptime_ok(s, fmt) == s.kind = "abs" /\ s.fmt = fmt /\ ValidYMD(s.y, s.m, s.d)

BaseFormats == {"%Y/%m/%d", "%m/%d/%Y", "%Y-%m-%d", "%m-%d-%Y", "%B %d, %Y", "%b %d, %Y"}
CapterraFormats == {"%B %d, %Y", "%b %d, %Y", "%m/%d/%Y", "%Y-%m-%d"}

\* the while loop of the month branch: borrow years until the month is positive
RECURSIVE BorrowMonths(_, _)
BorrowMonths(new_month, new_year) ==
    IF new_month <= 0 THEN BorrowMonths(new_month + 12, new_year - 1)
    ELSE [month |-> new_month, year |-> new_year]

parse_relative_date(s, current_date) ==
    IF s.kind = "rel" /\ s.unit = "year"
    THEN datetime(current_date.y - s.n, current_date.m, current_date.d)
    ELSE IF s.kind = "rel" /\ s.unit = "month"
    THEN LET b == BorrowMonths(current_date.m - s.n, current_date.y)
         IN datetime(b.year, b.month, current_date.d)
    ELSE IF s.kind = "rel" /\ s.unit = "day"
    THEN Ok(MinusDays(current_date, s.n))
    ELSE None

parse_date(s, current_date) ==
    IF s.kind = "empty" THEN None
    ELSE IF \E fmt \in BaseFormats : strptime_ok(s, fmt)
    THEN Ok(Dt(s.y, s.m, s.d, 0))
    ELSE parse_relative_date(s, current_date)

\* CapterraScraper._parse_date
cap_parse_date(s) ==
    IF \E fmt \in CapterraFormats : strptime_ok(s, fmt)
    THEN Ok(Dt(s.y, s.m, s.d, 0))
    ELSE None

\* review_date.strftime("%Y-%m-%d")
strftime_iso(dt) == AbsStr("%Y-%m-%d", dt.y, dt.m, dt.d)

----------------------------------------------------------------------------
(* Inputs: the command lines, the clock and the review listings of a run *)

Iso(y, m, d) == AbsStr("%Y-%m-%d", y, m, d)

\* --start-date / --end-date values: two calendar dates, a day that does not
\* exist, a date in another format, text that is no date
ArgDates == {Iso(2024, 2, 10), Iso(2024, 3, 10), Iso(2024, 2, 30),
             AbsStr("%m/%d/%Y", 2024, 3, 10), GarbageStr}

Sources == {"g2", "capterra"}

\* datetime.now(): the afternoon of 31 March 2024
Clocks == {Dt(2024, 3, 31, 1)}

Review(name, date, ok) == [reviewer_name |-> name, date |-> date, fields_ok |-> ok]

\* the reviews a listing page may show: two dated on the days the window may
\* start and end, one without a date, one dated "1 month ago" (31 February on
\* the clock above)
Reviews == {Review("ann", AbsStr("%b %d, %Y", 2024, 3, 10), TRUE),
            Review("bob", AbsStr("%B %d, %Y", 2024, 2, 10), TRUE),
            Review("cy", EmptyStr, TRUE),
            Review("dee", RelStr("month", 1), TRUE)}

\* a Capterra card whose title element is missing
BrokenCard == Review("fay", AbsStr("%b %d, %Y", 2024, 3, 10), FALSE)

SeqsUpTo(S, n) == UNION {[1..k -> S] : k \in 0..n}
Injective(s) == \A i, j \in DOMAIN s : s[i] = s[j] => i = j

\* one listing page: distinct review cards
Listings(S) == {s \in SeqsUpTo(S, MaxPageLen) : Injective(s)}

\* a response body: the review cards and the pagination it renders; raises
\* stands for markup that makes the parser throw; header tells whether the
\* product header (div.product-head__title) is in the markup
Payload(reviews, next, raises) ==
    [reviews |-> reviews, has_next |-> next, raises |-> raises, header |-> TRUE]
\* the same body without its product header
Headless(payload) == [payload EXCEPT !.header = FALSE]
NoHtml == Payload(<<>>, FALSE, FALSE)
BadPayload == Payload(<<>>, FALSE, TRUE)

\* what the source may serve as page number page: it has at most MaxPages pages
Payloads(page) ==
    {Payload(s, h, FALSE) : s \in Listings(Reviews),
                            h \in (IF page < MaxPages THEN BOOLEAN ELSE {FALSE})}
        \cup {BadPayload}

NoResult == [returned |-> FALSE, all_reviews |-> <<>>, total_scraped_reviews |-> 0]
NoCap == [start_date |-> NoDt, end_date |-> NoDt, page_number |-> 0, driver |-> "none"]

----------------------------------------------------------------------------
(* src/main.py *)

\* validate_date: the argparse type of --start-date and --end-date
validate_date(s) == strptime_ok(s, "%Y-%m-%d")

\* validate_date_range that accepts every pair of dates
validate_date_range_any(start_date, end_date) == TRUE

\* validate_date_range: start <= end
validate_date_range(start_date, end_date) ==
    DtLE(Dt(start_date.y, start_date.m, start_date.d, 0),
         Dt(end_date.y, end_date.m, end_date.d, 0))

\* get_scraper: the class registered for the source tag
get_scraper(source) ==
    IF source = "g2" THEN "G2Scraper"
    ELSE IF source = "capterra" THEN "CapterraScraper"
    ELSE "none"

\* a class can be instantiated when it overrides the abstract methods
\* scrape_reviews and parse_review_page of BaseScraper
Instantiable(class) == class = "G2Scraper"

Init ==
    /\ entry \in {"main", "scrape"}
    /\ now \in Clocks
    /\ IF entry = "main"
       THEN /\ args \in [source : Sources, start_date : ArgDates,
                         end_date : ArgDates, api_token : BOOLEAN]
            /\ cap = NoCap
            /\ pc = "args"
       ELSE /\ args = [source |-> "capterra", start_date |-> EmptyStr,
                       end_date |-> EmptyStr, api_token |-> FALSE]
            /\ \E s, e \in {Dt(2024, 2, 10, 0), Dt(2024, 3, 10, 0)} :
                  /\ DtLE(s, e)
                  /\ cap = [start_date |-> s, end_date |-> e,
                            page_number |-> 0, driver |-> "none"]
            /\ pc = "cap_start"
    /\ scraper = "none"
    /\ current_page = 0
    /\ has_next_page = FALSE
    /\ all_reviews = <<>>
    /\ html = NoHtml
    /\ attempt = 0
    /\ N = 0
    /\ result = NoResult
    /\ saved = NoResult
    /\ exit_code = -1
    /\ message = ""
    /\ fetches = <<>>
    /\ seen = <<>>
    /\ fetch_failed = FALSE
    /\ parse_failed = FALSE
    /\ interrupted = FALSE
    /\ delays = 0
    /\ processed = 0
    /\ classified = 0
    /\ session = "none"

\* sys.exit(code) after printing msg
Exit(code, msg) ==
    /\ pc' = "done"
    /\ exit_code' = code
    /\ message' = msg

\* parser.parse_args(): argparse applies validate_date to both dates and
\* exits with status 2 when one raises ArgumentTypeError
ParseArgs ==
    /\ pc = "args"
    /\ IF validate_date(args.start_date) /\ validate_date(args.end_date)
       THEN pc' = "range" /\ UNCHANGED <<exit_code, message>>
       ELSE Exit(2, "Invalid date format")
    /\ UNCHANGED <<session, delays, processed, classified, seen, entry, args, now, scraper, current_page, has_next_page, all_reviews,
                   html, attempt, N, cap, result, saved, fetches, fetch_failed,
                   parse_failed, interrupted>>

\* main: if not validate_date_range(...): sys.exit(1)
CheckRange ==
    /\ pc = "range"
    /\ IF validate_date_range(args.start_date, args.end_date)
       THEN pc' = "scraper" /\ UNCHANGED <<exit_code, message>>
       ELSE Exit(1, "Start date must be before or equal to end date")
    /\ UNCHANGED <<session, delays, processed, classified, seen, entry, args, now, scraper, current_page, has_next_page, all_reviews,
                   html, attempt, N, cap, result, saved, fetches, fetch_failed,
                   parse_failed, interrupted>>

\* main: scraper_class = get_scraper(...); scraper = scraper_class(api_token=...);
\* then the call of scrape_reviews up to the first test of the while loop.
\* Instantiating a class that leaves abstract methods open raises TypeError,
\* which main reports as an unexpected error. BaseScraper.__init__ creates the
\* requests.Session of the scraper; nothing in the program closes it.
MakeScraper ==
    /\ pc = "scraper"
    /\ LET scraper_class == get_scraper(args.source) IN
       IF scraper_class = "none"
       THEN /\ Exit(1, "Unsupported source")
            /\ UNCHANGED <<scraper, current_page, has_next_page, session>>
       ELSE IF ~Instantiable(scraper_class)
       THEN /\ Exit(1, "Unexpected error")
            /\ UNCHANGED <<scraper, current_page, has_next_page, session>>
       ELSE /\ scraper' = scraper_class
            /\ session' = "open"
            /\ current_page' = 1
            /\ has_next_page' = TRUE
            /\ pc' = "loop"
            /\ UNCHANGED <<exit_code, message>>
    /\ UNCHANGED <<delays, processed, classified, seen, entry, args, now, all_reviews, html, attempt, N, cap, result, saved,
                   fetches, fetch_failed, parse_failed, interrupted>>

----------------------------------------------------------------------------
(* src/scrapers/base_scraper.py: filter_reviews_by_date *)

\* in_range without the test against end_dt
in_range_no_end(review_date, start_dt, end_dt) ==
    /\ review_date.tag = "dt"
    /\ DtLE(start_dt.dt, review_date.dt)

\* in_range without the test that review_date is a date
in_range_no_none_test(review_date, start_dt, end_dt) ==
    \/ review_date.tag # "dt"
    \/ /\ DtLE(start_dt.dt, review_date.dt)
       /\ DtLE(review_date.dt, end_dt.dt)

\* review_date and start_dt <= review_date <= end_dt
in_range(review_date, start_dt, end_dt) ==
    /\ review_date.tag = "dt"
    /\ DtLE(start_dt.dt, review_date.dt)
    /\ DtLE(review_date.dt, end_dt.dt)

\* filter_reviews_by_date that puts each kept review in front of the ones
\* kept before it
filter_reviews_by_date_newest_first(reviews, start_date, end_date, current_date) ==
    LET start_dt == parse_date(start_date, current_date)
        end_dt == parse_date(end_date, current_date)
        Keep(review) == in_range(parse_date(review.date, current_date), start_dt, end_dt)
        kept == SelectSeq(reviews, Keep)
    IN  IF start_dt.tag = "ValueError" \/ end_dt.tag = "ValueError"
        THEN [raised |-> TRUE, reviews |-> <<>>]
        ELSE IF start_dt.tag = "None" \/ end_dt.tag = "None"
        THEN [raised |-> FALSE, reviews |-> reviews]
        ELSE IF \E i \in DOMAIN reviews :
                   parse_date(reviews[i].date, current_date).tag = "ValueError"
        THEN [raised |-> TRUE, reviews |-> <<>>]
        ELSE [raised |-> FALSE,
              reviews |-> [i \in 1..Len(kept) |-> kept[Len(kept) + 1 - i]]]

\* filter_reviews_by_date: the reviews kept, or raised when a call of
\* parse_date raises (nothing catches it here)
filter_reviews_by_date(reviews, start_date, end_date, current_date) ==
    LET start_dt == parse_date(start_date, current_date)
        end_dt == parse_date(end_date, current_date)
        Keep(review) == in_range(parse_date(review.date, current_date), start_dt, end_dt)
    IN  IF start_dt.tag = "ValueError" \/ end_dt.tag = "ValueError"
        THEN [raised |-> TRUE, reviews |-> <<>>]
        ELSE IF start_dt.tag = "None" \/ end_dt.tag = "None"
        THEN [raised |-> FALSE, reviews |-> reviews]
        ELSE IF \E i \in DOMAIN reviews :
                   parse_date(reviews[i].date, current_date).tag = "ValueError"
        THEN [raised |-> TRUE, reviews |-> <<>>]
        ELSE [raised |-> FALSE, reviews |-> SelectSeq(reviews, Keep)]

----------------------------------------------------------------------------
(* src/scrapers/g2_scraper.py: scrape_reviews *)

\* break: leave the while loop for the filter after it
Break == pc' = "filter"

\* while has_next_page: current_url = self._generate_page_url(...), then the
\* call of make_request. The fetcher decides here how many times it will
\* fail before it answers.
LoopTest ==
    /\ pc = "loop"
    /\ IF has_next_page
       THEN /\ pc' = "request"
            /\ attempt' = 0
            /\ N' \in 0..MaxFails
            /\ fetches' = Append(fetches, current_page)
       ELSE /\ Break
            /\ UNCHANGED <<attempt, N, fetches>>
    /\ UNCHANGED <<session, delays, processed, classified, seen, entry, args, now, scraper, current_page, has_next_page, all_reviews,
                   html, cap, result, saved, exit_code, message, fetch_failed,
                   parse_failed, interrupted>>

\* make_request returned a body
Fetched(payload) ==
    /\ html' = payload
    /\ pc' = "parse"
    /\ N' = 0
    /\ attempt' = 0
    /\ UNCHANGED fetch_failed

\* make_request returned None or raised: "Failed to fetch page", break
GaveUp ==
    /\ fetch_failed' = TRUE
    /\ Break
    /\ UNCHANGED <<html, N>>

\* make_request with an API token: one requests.get through the proxy, no
\* loop around it. A status other than 200 returns None; an exception leaves
\* make_request and is caught by the except of the crawl loop; both break.
RequestApi ==
    /\ pc = "request"
    /\ args.api_token
    /\ IF N = 0
       THEN \E payload \in Payloads(current_page) : Fetched(payload)
       ELSE GaveUp /\ attempt' = attempt + 1
    /\ UNCHANGED <<session, delays, processed, classified, seen, entry, args, now, scraper, current_page, has_next_page, all_reviews,
                   cap, result, saved, exit_code, message, fetches, parse_failed,
                   interrupted>>

\* make_request without a token: one pass of for attempt in range(max_retries);
\* a failed attempt sleeps and continues, the pass after the last one returns None
RequestDirect ==
    /\ pc = "request"
    /\ ~args.api_token
    /\ attempt < max_retries
    /\ IF attempt >= N
       THEN \E payload \in Payloads(current_page) : Fetched(payload)
       ELSE /\ attempt' = attempt + 1
            /\ IF attempt + 1 = max_retries
               THEN GaveUp
               ELSE UNCHANGED <<pc, html, N, fetch_failed>>
    /\ UNCHANGED <<session, delays, processed, classified, seen, entry, args, now, scraper, current_page, has_next_page, all_reviews,
                   cap, result, saved, exit_code, message, fetches, parse_failed,
                   interrupted>>

\* G2Scraper.parse_review_page: an exception inside becomes {'error': ...};
\* a product header that is not found leaves product_name '' and nothing else
parse_review_page(payload) ==
    IF payload.raises
    THEN [error |-> TRUE, product_name |-> "", all_reviews |-> <<>>,
          has_next_page |-> FALSE]
    ELSE [error |-> FALSE,
          product_name |-> IF payload.header THEN "product" ELSE "",
          all_reviews |-> payload.reviews,
          has_next_page |-> payload.has_next]

\* ParsePage that advances to the next page without appending the reviews of
\* the page it parsed
ParsePage_no_accumulate ==
    /\ pc = "parse"
    /\ IF html.raises
       THEN /\ parse_failed' = TRUE
            /\ Break
            /\ UNCHANGED <<has_next_page, current_page>>
       ELSE /\ has_next_page' = html.has_next
            /\ current_page' = current_page + 1
            /\ pc' = "sleep"
            /\ UNCHANGED parse_failed
    /\ html' = NoHtml
    /\ UNCHANGED <<session, all_reviews, seen, processed, delays, classified, entry, args, now,
                   scraper, attempt, N, cap, result, saved, exit_code, message, fetches,
                   fetch_failed, interrupted>>

\* parsed_result = self.parse_review_page(html); an 'error' key breaks, else
\* the page's reviews are appended and the loop variables advance
ParsePage ==
    /\ pc = "parse"
    /\ LET parsed_result == parse_review_page(html) IN
       IF parsed_result.error
       THEN /\ parse_failed' = TRUE
            /\ Break
            /\ UNCHANGED <<all_reviews, has_next_page, current_page, seen, processed>>
       ELSE /\ all_reviews' = all_reviews \o parsed_result.all_reviews
            /\ seen' = seen \o parsed_result.all_reviews
            /\ processed' = processed + 1
            /\ has_next_page' = parsed_result.has_next_page
            /\ current_page' = current_page + 1
            /\ pc' = "sleep"
            /\ UNCHANGED parse_failed
    /\ html' = NoHtml
    /\ UNCHANGED <<session, delays, classified, entry, args, now, scraper, attempt, N, cap, result, saved, exit_code,
                   message, fetches, fetch_failed, interrupted>>

\* RateLimit without the time.sleep(25)
RateLimit_no_sleep ==
    /\ pc = "sleep"
    /\ pc' = "loop"
    /\ UNCHANGED <<session, delays, processed, classified, seen, entry, args, now, scraper,
                   current_page, has_next_page, all_reviews, html, attempt, N, cap, result,
                   saved, exit_code, message, fetches, fetch_failed, parse_failed,
                   interrupted>>

\* time.sleep(25)
RateLimit ==
    /\ pc = "sleep"
    /\ delays' = delays + 1
    /\ pc' = "loop"
    /\ UNCHANGED <<session, processed, classified, seen, entry, args, now, scraper, current_page, has_next_page, all_reviews,
                   html, attempt, N, cap, result, saved, exit_code, message, fetches,
                   fetch_failed, parse_failed, interrupted>>

\* FilterReviews that reports len(all_reviews), the count before the filter
FilterReviews_count_all ==
    /\ pc = "filter"
    /\ LET f == filter_reviews_by_date(all_reviews, args.start_date, args.end_date, now) IN
       IF f.raised
       THEN /\ Exit(1, "Unexpected error")
            /\ UNCHANGED <<result, classified>>
       ELSE /\ result' = [returned |-> TRUE, all_reviews |-> f.reviews,
                          total_scraped_reviews |-> Len(all_reviews)]
            /\ classified' = Len(all_reviews)
            /\ pc' = "save"
            /\ UNCHANGED <<exit_code, message>>
    /\ UNCHANGED <<session, delays, processed, seen, entry, args, now, scraper, current_page,
                   has_next_page, all_reviews, html, attempt, N, cap, saved, fetches,
                   fetch_failed, parse_failed, interrupted>>

\* filtered_reviews = self.filter_reviews_by_date(...); return {...}. The call
\* is outside the try of the loop: an exception reaches main's except Exception.
FilterReviews ==
    /\ pc = "filter"
    /\ LET f == filter_reviews_by_date(all_reviews, args.start_date, args.end_date, now) IN
       IF f.raised
       THEN /\ Exit(1, "Unexpected error")
            /\ UNCHANGED <<result, classified>>
       ELSE /\ result' = [returned |-> TRUE, all_reviews |-> f.reviews,
                          total_scraped_reviews |-> Len(f.reviews)]
            /\ classified' = Len(all_reviews)
            /\ pc' = "save"
            /\ UNCHANGED <<exit_code, message>>
    /\ UNCHANGED <<session, delays, processed, seen, entry, args, now, scraper, current_page, has_next_page, all_reviews,
                   html, attempt, N, cap, saved, fetches, fetch_failed, parse_failed,
                   interrupted>>

\* SaveResult that treats a result without reviews as an error
SaveResult_empty_is_error ==
    /\ pc = "save"
    /\ IF result.all_reviews = <<>>
       THEN Exit(1, "Error") /\ UNCHANGED saved
       ELSE saved' = result /\ Exit(0, "SCRAPING COMPLETE")
    /\ UNCHANGED <<session, delays, processed, classified, seen, entry, args, now, scraper,
                   current_page, has_next_page, all_reviews, html, attempt, N, cap, result,
                   fetches, fetch_failed, parse_failed, interrupted>>

\* main: the result has no 'error' key; save_to_json, the summary, exit status 0
SaveResult ==
    /\ pc = "save"
    /\ saved' = result
    /\ Exit(0, "SCRAPING COMPLETE")
    /\ UNCHANGED <<session, delays, processed, classified, seen, entry, args, now, scraper, current_page, has_next_page, all_reviews,
                   html, attempt, N, cap, result, fetches, fetch_failed, parse_failed,
                   interrupted>>

----------------------------------------------------------------------------
(* src/scrapers/capterra_scraper.py: scrape *)

\* the cards a Capterra reviews page may show
CapCards == Reviews \cup {BrokenCard}

\* the body of for card in review_cards: a card is appended when its date
\* parses, lies in the window and its fields can be read; any exception of a
\* card is caught and the card skipped
cap_accepts(card, start_date, end_date) ==
    LET review_date == cap_parse_date(card.date) IN
    /\ review_date.tag = "dt"
    /\ ~DtLT(review_date.dt, start_date)
    /\ DtLE(start_date, review_date.dt)
    /\ DtLE(review_date.dt, end_date)
    /\ card.fields_ok

cap_review(card) ==
    Review(card.reviewer_name, strftime_iso(cap_parse_date(card.date).dt), TRUE)

cap_page_reviews(cards, start_date, end_date) ==
    LET Keep(card) == cap_accepts(card, start_date, end_date)
        kept == SelectSeq(cards, Keep)
    IN  [i \in 1..Len(kept) |-> cap_review(kept[i])]

\* driver = self._get_driver(); if not driver: return []
CapGetDriver ==
    /\ pc = "cap_start"
    /\ \/ /\ cap' = [cap EXCEPT !.driver = "open"]
          /\ pc' = "cap_open"
          /\ UNCHANGED result
       \/ /\ result' = [returned |-> TRUE, all_reviews |-> <<>>,
                        total_scraped_reviews |-> 0]
          /\ pc' = "done"
          /\ UNCHANGED cap
    /\ UNCHANGED <<session, delays, processed, classified, seen, entry, args, now, scraper, current_page, has_next_page, all_reviews,
                   html, attempt, N, saved, exit_code, message, fetches, fetch_failed,
                   parse_failed, interrupted>>

\* the search page (three navigation attempts, the last failure is raised),
\* the wait for the reviews URL (a timeout returns []) and the sort attempt
\* (its failure is ignored); the reviews page is page 1
CapOpenReviews ==
    /\ pc = "cap_open"
    /\ \/ /\ cap' = [cap EXCEPT !.page_number = 1]
          /\ fetches' = Append(fetches, 1)
          /\ pc' = "cap_page"
       \/ /\ pc' = "cap_finally"
          /\ UNCHANGED <<cap, fetches>>
    /\ UNCHANGED <<session, delays, processed, classified, seen, entry, args, now, scraper, current_page, has_next_page, all_reviews,
                   html, attempt, N, result, saved, exit_code, message, fetch_failed,
                   parse_failed, interrupted>>

\* one pass of while page_number <= max_pages up to the navigation: the wait
\* for the container (a timeout breaks), the cards (none breaks), the loop
\* over the cards
CapScrapePage ==
    /\ pc = "cap_page"
    /\ cap.page_number <= max_pages
    /\ \/ \E cards \in Listings(CapCards) :
             IF cards = <<>>
             THEN pc' = "cap_finally" /\ UNCHANGED <<all_reviews, seen, processed, classified>>
             ELSE /\ all_reviews' = all_reviews \o
                        cap_page_reviews(cards, cap.start_date, cap.end_date)
                  /\ seen' = seen \o cards
                  /\ processed' = processed + 1
                  /\ classified' = classified + Len(cards)
                  /\ pc' = "cap_next"
       \/ /\ pc' = "cap_finally"
          /\ UNCHANGED <<all_reviews, seen, processed, classified>>
    /\ UNCHANGED <<session, delays, entry, args, now, scraper, current_page, has_next_page, html, attempt,
                   N, cap, result, saved, exit_code, message, fetches, fetch_failed,
                   parse_failed, interrupted>>

\* CapNextPage that navigates from the last page of the budget as well
CapNextPage_past_budget ==
    /\ pc = "cap_next"
    /\ IF cap.page_number <= max_pages
       THEN \/ /\ delays' = delays + 1
               /\ cap' = [cap EXCEPT !.page_number = cap.page_number + 1]
               /\ fetches' = Append(fetches, cap.page_number + 1)
               /\ pc' = "cap_page"
            \/ /\ pc' = "cap_finally"
               /\ UNCHANGED <<cap, fetches, delays>>
       ELSE /\ pc' = "cap_finally"
            /\ UNCHANGED <<cap, fetches, delays>>
    /\ UNCHANGED <<session, processed, classified, seen, entry, args, now, scraper, current_page,
                   has_next_page, all_reviews, html, attempt, N, result, saved, exit_code,
                   message, fetch_failed, parse_failed, interrupted>>

\* if page_number < max_pages: _goto_next_page (False breaks), page_number += 1,
\* time.sleep(...); else break. _goto_next_page pauses (time.sleep(1)) between
\* scrolling to the Next button and the click that loads the next page.
CapNextPage ==
    /\ pc = "cap_next"
    /\ IF cap.page_number < max_pages
       THEN \/ /\ delays' = delays + 1
               /\ cap' = [cap EXCEPT !.page_number = cap.page_number + 1]
               /\ fetches' = Append(fetches, cap.page_number + 1)
               /\ pc' = "cap_page"
            \/ /\ pc' = "cap_finally"
               /\ UNCHANGED <<cap, fetches, delays>>
       ELSE /\ pc' = "cap_finally"
            /\ UNCHANGED <<cap, fetches, delays>>
    /\ UNCHANGED <<session, processed, classified, seen, entry, args, now, scraper, current_page, has_next_page, all_reviews,
                   html, attempt, N, result, saved, exit_code, message, fetch_failed,
                   parse_failed, interrupted>>

\* except Exception: an error of the driver anywhere in the try ends the loop
CapError ==
    /\ pc \in {"cap_page", "cap_next"}
    /\ pc' = "cap_finally"
    /\ UNCHANGED <<session, delays, processed, classified, seen, entry, args, now, scraper, current_page, has_next_page, all_reviews,
                   html, attempt, N, cap, result, saved, exit_code, message, fetches,
                   fetch_failed, parse_failed, interrupted>>

\* finally: driver.quit(); return all_reviews
CapFinally ==
    /\ pc = "cap_finally"
    /\ cap' = [cap EXCEPT !.driver = "closed"]
    /\ result' = [returned |-> TRUE, all_reviews |-> all_reviews,
                  total_scraped_reviews |-> Len(all_reviews)]
    /\ pc' = "done"
    /\ UNCHANGED <<session, delays, processed, classified, seen, entry, args, now, scraper, current_page, has_next_page, all_reviews,
                   html, attempt, N, saved, exit_code, message, fetches, fetch_failed,
                   parse_failed, interrupted>>

----------------------------------------------------------------------------
(* KeyboardInterrupt *)

\* Ctrl-C while main is inside its try: no except Exception catches it, main's
\* except KeyboardInterrupt prints and exits with status 1. Inside
\* CapterraScraper.scrape the finally clause quits the driver and the
\* interrupt leaves the method without a return value.
Interrupt ==
    /\ \/ /\ entry = "main"
          /\ pc \in {"scraper", "loop", "request", "parse", "sleep", "filter", "save"}
          /\ Exit(1, "Scraping interrupted by user")
          /\ UNCHANGED cap
       \/ /\ entry = "scrape"
          /\ pc \in {"cap_open", "cap_page", "cap_next", "cap_finally"}
          /\ cap' = [cap EXCEPT !.driver = "closed"]
          /\ pc' = "done"
          /\ UNCHANGED <<exit_code, message>>
    /\ interrupted' = TRUE
    /\ UNCHANGED <<session, delays, processed, classified, seen, entry, args, now, scraper, current_page, has_next_page, all_reviews,
                   html, attempt, N, result, saved, fetches, fetch_failed, parse_failed>>

----------------------------------------------------------------------------

Next ==
    \/ ParseArgs
    \/ CheckRange
    \/ MakeScraper
    \/ LoopTest
    \/ RequestApi
    \/ RequestDirect
    \/ ParsePage
    \/ RateLimit
    \/ FilterReviews
    \/ SaveResult
    \/ CapGetDriver
    \/ CapOpenReviews
    \/ CapScrapePage
    \/ CapNextPage
    \/ CapError
    \/ CapFinally
    \/ Interrupt

Spec == Init /\ [][Next]_vars

----------------------------------------------------------------------------
(* The date filter on its own: G2Scraper.scrape_reviews at the call of       *)
(* filter_reviews_by_date, after one page that reported no next page, for a  *)
(* wider choice of clocks and review dates than the crawl above.             *)

\* datetime.now(): midnight and the afternoon of a day the window may end on,
\* the afternoons of the day after it, of the day the window may start on, of
\* 31 March and of 29 February
DateClocks == {Dt(2024, 3, 10, 0), Dt(2024, 3, 10, 1), Dt(2024, 3, 11, 1),
               Dt(2024, 2, 10, 1), Dt(2024, 3, 31, 1), Dt(2024, 2, 29, 1)}

\* the text of a review's date element
DateStrings == {AbsStr("%b %d, %Y", 2024, 3, 10), AbsStr("%b %d, %Y", 2024, 2, 10),
                AbsStr("%b %d, %Y", 2024, 3, 11), AbsStr("%b %d, %Y", 2024, 2, 9),
                AbsStr("%Y-%m-%d", 2024, 3, 10),
                RelStr("day", 0), RelStr("day", 1), RelStr("day", 2),
                RelStr("month", 1), RelStr("year", 1), EmptyStr, GarbageStr}

\* --start-date / --end-date of a job that passed main's validation
DateWindows == {w \in [start_date : {Iso(2024, 2, 10), Iso(2024, 3, 10)},
                       end_date : {Iso(2024, 2, 10), Iso(2024, 3, 10)}] :
                   validate_date_range(w.start_date, w.end_date)}

DatesInit ==
    /\ entry = "main"
    /\ now \in DateClocks
    /\ \E w \in DateWindows :
          args = [source |-> "g2", start_date |-> w.start_date,
                  end_date |-> w.end_date, api_token |-> FALSE]
    /\ pc = "filter"
    /\ scraper = "G2Scraper"
    /\ current_page = 2
    /\ has_next_page = FALSE
    /\ \E d \in DateStrings :
          /\ all_reviews = <<Review("eve", d, TRUE)>>
          /\ seen = <<Review("eve", d, TRUE)>>
    /\ html = NoHtml
    /\ attempt = 0
    /\ N = 0
    /\ cap = NoCap
    /\ result = NoResult
    /\ saved = NoResult
    /\ exit_code = -1
    /\ message = ""
    /\ fetches = <<1>>
    /\ fetch_failed = FALSE
    /\ parse_failed = FALSE
    /\ interrupted = FALSE
    /\ delays = 1
    /\ processed = 1
    /\ classified = 0
    /\ session = "open"

DatesNext ==
    \/ FilterReviews
    \/ SaveResult

SpecDates == DatesInit /\ [][DatesNext]_vars

----------------------------------------------------------------------------
(* The page parser on its own: G2Scraper.scrape_reviews at the call of       *)
(* parse_review_page for the first page, for every markup a response may     *)
(* hold, with and without the product header.                                *)

\* response bodies: review cards, pagination, markup the parser throws on,
\* each with and without the product header
Markups ==
    LET bodies == {Payload(s, h, r) : s \in Listings(Reviews), h \in BOOLEAN,
                                      r \in BOOLEAN}
    IN  bodies \cup {Headless(b) : b \in bodies}

ParseInit ==
    /\ entry = "main"
    /\ now \in Clocks
    /\ \E w \in DateWindows :
          args = [source |-> "g2", start_date |-> w.start_date,
                  end_date |-> w.end_date, api_token |-> FALSE]
    /\ pc = "parse"
    /\ scraper = "G2Scraper"
    /\ current_page = 1
    /\ has_next_page = TRUE
    /\ all_reviews = <<>>
    /\ seen = <<>>
    /\ html \in Markups
    /\ attempt = 0
    /\ N = 0
    /\ cap = NoCap
    /\ result = NoResult
    /\ saved = NoResult
    /\ exit_code = -1
    /\ message = ""
    /\ fetches = <<1>>
    /\ fetch_failed = FALSE
    /\ parse_failed = FALSE
    /\ interrupted = FALSE
    /\ delays = 0
    /\ processed = 0
    /\ classified = 0
    /\ session = "open"

ParseNext ==
    \/ ParsePage
    \/ RateLimit

SpecParse == ParseInit /\ [][ParseNext]_vars

----------------------------------------------------------------------------
(* Vocabulary of the properties *)

\* the window of the job as calendar dates
JobStart ==
    IF entry = "main"
    THEN Dt(args.start_date.y, args.start_date.m, args.start_date.d, 0)
    ELSE cap.start_date
JobEnd ==
    IF entry = "main"
    THEN Dt(args.end_date.y, args.end_date.m, args.end_date.d, 0)
    ELSE cap.end_date

\* an ISO calendar date: YYYY-MM-DD naming a day of the calendar
IsoDate(s) == s.kind = "abs" /\ s.fmt = "%Y-%m-%d" /\ ValidYMD(s.y, s.m, s.d)

\* the job a command line describes is valid
ValidJob ==
    /\ IsoDate(args.start_date)
    /\ IsoDate(args.end_date)
    /\ DateLE(JobStart, JobEnd)

\* the result handed to the caller of the job: the file main writes, or the
\* list scrape() returns
Handed == IF entry = "main" THEN saved ELSE result

Results == {result, saved}

Contains(reviews, r) == \E j \in DOMAIN reviews : reviews[j] = r

\* the date of a review as the scraper of the job reads it
ReviewDate(r) == IF entry = "main" THEN parse_date(r.date, now) ELSE cap_parse_date(r.date)

\* the review has a date, and the date lies in the window of the job
Dated(r) == ReviewDate(r).tag = "dt"
InWindow(r) ==
    /\ Dated(r)
    /\ DateLE(JobStart, ReviewDate(r).dt)
    /\ DateLE(ReviewDate(r).dt, JobEnd)
OlderThanStart(r) ==
    /\ Dated(r)
    /\ ~DateLE(JobStart, ReviewDate(r).dt)

\* the record of a card as the result holds it
Record(r) == IF entry = "main" THEN r ELSE cap_review(r)

\* every in-range record of the processed pages whose fields can be read is
\* in the result handed to the caller
NothingLost ==
    \A i \in DOMAIN seen :
        (InWindow(seen[i]) /\ seen[i].fields_ok)
            => Contains(Handed.all_reviews, Record(seen[i]))

\* the dated records seen so far are listed newest first
NewestFirst ==
    \A i, j \in DOMAIN seen :
        (i < j /\ Dated(seen[i]) /\ Dated(seen[j]))
            => DateLE(ReviewDate(seen[j]).dt, ReviewDate(seen[i]).dt)

DedupKey(r) == <<args.source, r.reviewer_name, r.date>>

----------------------------------------------------------------------------
(* Properties *)

\* C1: every review of a returned result has a date d with
\* start_date <= d <= end_date, both bounds inclusive, for either scraper and
\* every way the job ends.
C1_RangeInvariant ==
    \A res \in Results : \A i \in DOMAIN res.all_reviews : InWindow(res.all_reviews[i])

\* C1 witness: a finished job saved a review and left out a dated review that
\* lies outside the window.
C1_Witness ==
    /\ pc = "done"
    /\ saved.returned
    /\ saved.all_reviews # <<>>
    /\ \E i \in DOMAIN seen : Dated(seen[i]) /\ ~InWindow(seen[i])

\* C2: once a processed page of a newest-first listing held a record older
\* than start_date, no further page is requested.
C2_BoundaryStop ==
    [][(NewestFirst /\ \E i \in DOMAIN seen : OlderThanStart(seen[i]))
          => fetches' = fetches]_vars

\* C3: a fetcher that fails N times and then succeeds, with N no larger than
\* the retry bound, never makes make_request give up, on either fetch path.
C3_RetrySuccess == fetch_failed => N > max_retries

\* C4: when the fetch of a page failed for good, the result handed to the
\* caller holds every in-range record of the pages before it.
C4_PartialResults == (pc = "done" /\ fetch_failed /\ ~interrupted) => NothingLost

\* C5: a job whose page fetch failed for good ends as a failure, not as a
\* normal completion.
C5_FailureSurfaced ==
    (pc = "done" /\ fetch_failed /\ ~interrupted)
        => (exit_code # 0 /\ message # "SCRAPING COMPLETE")

\* C6: no two reviews of a returned result share the dedup key.
C6_NoDuplicates ==
    \A res \in Results : \A i, j \in DOMAIN res.all_reviews :
        DedupKey(res.all_reviews[i]) = DedupKey(res.all_reviews[j]) => i = j

C8_CancelKeepsPartial == (entry = "main" /\ pc = "done" /\ interrupted) => NothingLost

\* C9: a record that cannot be processed is dropped alone: a job that was not
\* interrupted hands every other in-range record of the fetched pages to the
\* caller.
C9_RecordErrorsDoNotAbort == (pc = "done" /\ ~interrupted) => NothingLost

\* C10: a record whose date is empty or does not parse is in no returned
\* result.
C10_NoUndatedInResult ==
    \A res \in Results : \A i \in DOMAIN res.all_reviews :
        /\ res.all_reviews[i].date.kind # "empty"
        /\ Dated(res.all_reviews[i])

\* C10 witness: a finished job saved a review while a processed page held a
\* review without a date.
C10_Witness ==
    /\ pc = "done"
    /\ saved.returned
    /\ saved.all_reviews # <<>>
    /\ \E i \in DOMAIN seen : seen[i].date.kind = "empty"

----------------------------------------------------------------------------
(* Properties of the later stages of a job *)

\* a <= b as sequences: a is a subsequence of b
RECURSIVE IsSubsequence(_, _)
IsSubsequence(a, b) ==
    IF a = <<>> THEN TRUE
    ELSE IF b = <<>> THEN FALSE
    ELSE IF Head(a) = Head(b) THEN IsSubsequence(Tail(a), Tail(b))
    ELSE IsSubsequence(a, Tail(b))

\* the records of the processed pages, in the order the pages showed them
Discovered == [i \in DOMAIN seen |-> Record(seen[i])]

\* C11: a job whose page k could not be parsed requested no page after k and
\* did not request k again, ends as a failure, and hands the in-range records
\* of the pages before k to the caller.
C11_ParseFailure ==
    (pc = "done" /\ parse_failed /\ ~interrupted)
        => /\ Len(fetches) = processed + 1
           /\ exit_code # 0
           /\ message # "SCRAPING COMPLETE"
           /\ NothingLost

\* C12: a job whose source showed no review at all, and whose fetches and
\* parses all succeeded, ends as a normal completion with an empty review
\* list and a total count of 0.
C12_EmptyResult ==
    (/\ pc = "done"
     /\ ~interrupted
     /\ ~fetch_failed
     /\ ~parse_failed
     /\ seen = <<>>
     /\ entry = "main" => scraper # "none")
        => /\ Handed.returned
           /\ Handed.all_reviews = <<>>
           /\ Handed.total_scraped_reviews = 0
           /\ entry = "main" => (exit_code = 0 /\ message = "SCRAPING COMPLETE")

\* C12 witness: a job from the command line processed a page without reviews
\* and has ended with status 0.
C12_Witness ==
    /\ entry = "main"
    /\ pc = "done"
    /\ processed >= 1
    /\ seen = <<>>
    /\ ~fetch_failed
    /\ ~parse_failed
    /\ exit_code = 0
    /\ saved.returned

\* C13: in every returned result the reported count is the length of the
\* review list, however the crawl loop ended.
C13_CountInvariant ==
    \A res \in Results : res.total_scraped_reviews = Len(res.all_reviews)

\* C13 witness: a job whose fetch of a later page failed saved a result that
\* holds fewer reviews than the pages showed.
C13_Witness ==
    /\ pc = "done"
    /\ fetch_failed
    /\ saved.returned
    /\ Len(saved.all_reviews) >= 1
    /\ Len(saved.all_reviews) < Len(seen)

\* C14: page requests and pauses alternate: each request after the first one
\* of a job comes after a pause of its own.
C14_InterPageDelay ==
    /\ delays <= Len(fetches)
    /\ Len(fetches) <= delays + 1

\* C14 witness: a second page was requested after the first one was processed.
C14_Witness ==
    /\ Len(fetches) = 2
    /\ processed >= 1
    /\ delays = 1

\* C15: the reviews of a returned result are a subsequence of the records of
\* the processed pages in page order and position on the page.
C15_DiscoveryOrder ==
    \A res \in Results : IsSubsequence(res.all_reviews, Discovered)

\* C15 witness: a saved result holds two reviews and leaves out a record that
\* the pages showed.
C15_Witness ==
    /\ pc = "done"
    /\ saved.returned
    /\ Len(saved.all_reviews) >= 2
    /\ Len(saved.all_reviews) < Len(seen)

\* C16: a valid job from the command line that was not interrupted requests
\* its first page, for either source tag.
C16_AdapterSelection ==
    (entry = "main" /\ ValidJob /\ pc = "done" /\ ~interrupted) => fetches # <<>>

C18_Classification ==
    \A res \in Results : \A i \in DOMAIN seen :
        (res.returned /\ Dated(seen[i]) /\ seen[i].fields_ok)
            => (Contains(res.all_reviews, Record(seen[i])) <=> InWindow(seen[i]))

\* C19: once a processed page reported no next page, no further page is
\* requested, and the job, unless interrupted, ends as a normal completion
\* that hands the in-range records of its pages to the caller.
C19_ExhaustionStop ==
    (entry = "main" /\ processed >= 1 /\ ~has_next_page)
        => /\ Len(fetches) = processed
           /\ (pc = "done" /\ ~interrupted)
                 => (exit_code = 0 /\ message = "SCRAPING COMPLETE" /\ NothingLost)

\* C20: CapterraScraper.scrape requests and processes at most max_pages pages
\* and never moves past page max_pages.
C20_PageBudget ==
    entry = "scrape"
        => /\ processed <= max_pages
           /\ Len(fetches) <= max_pages
           /\ cap.page_number <= max_pages
           /\ \A i \in DOMAIN fetches : fetches[i] <= max_pages

\* C20 witness: scrape() returned after processing max_pages pages that all
\* showed reviews.
C20_Witness ==
    /\ entry = "scrape"
    /\ pc = "done"
    /\ ~interrupted
    /\ result.returned
    /\ processed = max_pages

\* C21: parsing a payload without the product header reports a parse error,
\* and parsing a well-formed page without reviews reports no error and yields
\* an empty page.
C21_HeaderlessIsParseError ==
    [][(pc = "parse" /\ ~interrupted')
          => /\ ~html.header => parse_failed'
             /\ (html.header /\ ~html.raises /\ html.reviews = <<>>)
                   => (~parse_failed' /\ processed' = processed + 1 /\ seen' = seen)]_vars

\* C22: no terminal state is reached with the requests.Session of the
\* scraper or the browser driver still open.
C22_SessionTeardown ==
    pc = "done" => (session # "open" /\ cap.driver # "open")

\* C23: parsing "N days ago", "N months ago" or "N years ago" yields nothing
\* or a day of the calendar that is not after the clock's day; it never
\* raises, whatever the clock.
C23_RelativeDates ==
    \A i \in DOMAIN seen :
        (entry = "main" /\ pc \in {"save", "done"} /\ ~interrupted
           /\ seen[i].date.kind = "rel")
            => /\ ReviewDate(seen[i]).tag \in {"dt", "None"}
               /\ Dated(seen[i])
                     => /\ ValidYMD(ReviewDate(seen[i]).dt.y, ReviewDate(seen[i]).dt.m,
                                    ReviewDate(seen[i]).dt.d)
                        /\ DateLE(ReviewDate(seen[i]).dt, now)
               /\ result.returned

\* the crawl with its scheduling: the interpreter runs one statement after the
\* other, so a step that can be taken is taken
SpecLive == Spec /\ WF_vars(Next)

\* every job from the command line reaches its end (holds under SpecLive: the
\* source serves at most MaxPages pages and make_request stops after
\* max_retries attempts)
G2Terminates == (entry = "main") => <>(pc = "done")

\* C24: the G2 loop requests the pages 1, 2, 3, ... in this order, each once
\* and each after the page before it was processed, and a job that ended
\* without being interrupted returned a result.
C24_LoopReturns ==
    entry = "main"
        => /\ \A i \in DOMAIN fetches : fetches[i] = i
           /\ Len(fetches) \in {processed, processed + 1}
           /\ (pc = "done" /\ ~interrupted /\ scraper = "G2Scraper") => result.returned

====
